---- MODULE Spec2Model ----
(***************************************************************************)
(* Strobed display / keypad logic of the Intellect-02 (intellect02.cpp)    *)
(* and Chess Champion MK I / CompuChess (mk1.cpp) drivers.                 *)
(*                                                                         *)
(* One driver runs per behaviour (variable driver).  Time is discrete: a   *)
(* pending one-shot timer holds the number of ticks left until it expires, *)
(* Tick advances the clock by one tick and is blocked while an expired     *)
(* timer has not yet run its callback.  Port writes, reset changes and     *)
(* callbacks are delivered one at a time, in any order.                    *)
(***************************************************************************)
EXTENDS Integers, Naturals, FiniteSets, Sequences, TLC

(***************************************************************************)
(* Bounds of the model                                                     *)
(***************************************************************************)
\* ticks standing for the 25 ms of intel02 delay_display
IntelDelayTicks == 2
\* ticks standing for the 15 us of intel02 delay_update
IntelUpdateTicks == 1
\* ticks standing for the 20 ms of mk1 delay_display
Mk1DelayTicks == 2
\* ticks standing for the 250 ms period of mk1 blink_display
Mk1BlinkTicks == 3

(***************************************************************************)
(* Bytes written by the CPU in the model (inputs of the write handlers)    *)
(***************************************************************************)
\* control_w data: digits 0,1, lose led (d4), beeper (d7)
IntelControlData == {0, 1, 2, 3, 17, 129}
\* digit_w data before the bitswap
IntelDigitData == {0, 3, 65}
\* digit_select_w data (active low)
Mk1SelectData == {255, 254, 253, 252}
\* digit_data_w data: blank, DP only, odd with segments, even
Mk1DigitData == {0, 1, 3, 6}

(***************************************************************************)
(* Bit helpers (emucore BIT, bitswap<8>, u8 arithmetic)                    *)
(***************************************************************************)
Pow2(n) == 2 ^ n

BIT(x, n) == (x \div Pow2(n)) % 2

Pack8(F(_)) ==
    F(0) + 2 * F(1) + 4 * F(2) + 8 * F(3) + 16 * F(4) + 32 * F(5) + 64 * F(6) + 128 * F(7)

And8(a, b) == Pack8(LAMBDA n : BIT(a, n) * BIT(b, n))

Or8(a, b) == Pack8(LAMBDA n : IF BIT(a, n) = 1 \/ BIT(b, n) = 1 THEN 1 ELSE 0)

Not8(a) == Pack8(LAMBDA n : 1 - BIT(a, n))

bitswap8(val, b7, b6, b5, b4, b3, b2, b1, b0) ==
    128 * BIT(val, b7) + 64 * BIT(val, b6) + 32 * BIT(val, b5) + 16 * BIT(val, b4)
    + 8 * BIT(val, b3) + 4 * BIT(val, b2) + 2 * BIT(val, b1) + BIT(val, b0)

\* position of the highest set bit of val > 0
RECURSIVE HighBit(_)
HighBit(val) == IF val <= 1 THEN 0 ELSE 1 + HighBit(val \div 2)

\* eminline count_leading_zeros: leading zero bits of a 32-bit value
count_leading_zeros(val) == IF val = 0 THEN 32 ELSE 31 - HighBit(val)

(***************************************************************************)
(* Timers (timer_device, one-shot unless stated)                           *)
(***************************************************************************)
\* a timer that is not scheduled
Idle == -1

\* timer_device::enabled: the timer was armed and has not run its callback
enabled(t) == t # Idle

Min(a, b) == IF a < b THEN a ELSE b

\* one tick of the clock on a timer
TickTimer(t) == IF t > 0 THEN t - 1 ELSE t

VARIABLES
    driver,                  \* "intel02" or "mk1": the machine that runs
    intel02_digit_data,      \* intel02_state::m_digit_data
    intel02_led_select,      \* intel02_state::m_led_select
    intel02_led_active,      \* intel02_state::m_led_active
    intel02_out_digit,       \* intel02_state::m_out_digit[0..3]
    intel02_out_led,         \* intel02_state::m_out_led[0..1]
    intel02_delay_update,    \* intel02_state::m_delay_update
    intel02_delay_display,   \* intel02_state::m_delay_display[0..5]
    intel02_beeper,          \* m_beeper state
    intel02_reset_line,      \* m_maincpu INPUT_LINE_RESET
    intel02_IN0,             \* ioport IN.0
    intel02_IN1,             \* ioport IN.1
    intel02_input,           \* last value returned by input_r, -1 before a read
    mk1_digit_select,        \* mk1_state::m_digit_select
    mk1_digit_data,          \* mk1_state::m_digit_data
    mk1_blink,               \* mk1_state::m_blink
    mk1_out_digit,           \* mk1_state::m_out_digit[0..3]
    mk1_delay_display,       \* mk1_state::m_delay_display[0..3]
    mk1_blink_display,       \* periodic timer "blink_display"
    mk1_reset_line,          \* m_maincpu INPUT_LINE_RESET
    mk1_keypad,              \* ioports LINE1..LINE4 (m_keypad[0..3])
    mk1_input,               \* value returned by the last input_r since the last
                             \* digit_data_w, -1 if there was none
    gap                      \* per line: ticks since it was last deselected (saturating),
                             \* 0 while selected, -1 if it was never selected

intelDisplay == <<intel02_digit_data, intel02_led_select, intel02_led_active,
                  intel02_out_digit, intel02_out_led, intel02_beeper>>
intelTimers == <<intel02_delay_update, intel02_delay_display>>
intelKeys == <<intel02_IN0, intel02_IN1, intel02_input>>
intelVars == <<intelDisplay, intelTimers, intel02_reset_line, intelKeys>>
mk1Display == <<mk1_digit_select, mk1_digit_data, mk1_blink, mk1_out_digit>>
mk1Timers == <<mk1_delay_display, mk1_blink_display>>
mk1Keys == <<mk1_keypad, mk1_input>>
mk1Vars == <<mk1Display, mk1Timers, mk1_reset_line, mk1Keys>>
vars == <<driver, intelVars, mk1Vars, gap>>

IntelDigits == 0 .. 3
IntelLines == 0 .. 5
Mk1Digits == 0 .. 3

(***************************************************************************)
(* Intellect-02                                                            *)
(***************************************************************************)
intel02_machine_start ==
    /\ intel02_digit_data = 0
    /\ intel02_led_select = 0
    /\ intel02_led_active = 0
    /\ intel02_out_digit = [i \in IntelDigits |-> 0]
    /\ intel02_out_led = [i \in 0 .. 1 |-> 0]
    /\ intel02_delay_update = Idle
    /\ intel02_delay_display = [i \in IntelLines |-> Idle]
    /\ intel02_beeper = 0
    /\ intel02_reset_line = 0
    /\ intel02_IN0 = 0
    /\ intel02_IN1 = 0
    /\ intel02_input = -1

\* update_display without the branch that blanks an inactive digit
intel02_update_digits_noblank(sel, act, data, out) ==
    [i \in IntelDigits |-> IF BIT(sel, i) = 1 THEN data ELSE out[i]]

\* update_display that drives only the digits that are both selected and active
\* and tests the active bit of the wrong line
intel02_update_digits_shifted(sel, act, data, out) ==
    [i \in IntelDigits |->
        IF BIT(sel, i) = 1 /\ BIT(act, i + 1) = 1 THEN data
        ELSE IF BIT(act, i + 1) = 0 THEN 0
        ELSE out[i]]

\* the digit outputs after update_display
intel02_update_digits(sel, act, data, out) ==
    [i \in IntelDigits |->
        IF BIT(sel, i) = 1 THEN data
        ELSE IF BIT(act, i) = 0 THEN 0
        ELSE out[i]]

\* leds taken from m_led_select, without the deflicker hold
intel02_update_leds_select(act) == [i \in 0 .. 1 |-> BIT(intel02_led_select, 4 + i)]

\* the led outputs after update_display
intel02_update_leds(act) == [i \in 0 .. 1 |-> BIT(act, 4 + i)]

\* gap after one more tick
IntelGap(sel, g) ==
    [i \in IntelLines |->
        IF BIT(sel, i) = 0 /\ g[i] >= 0 THEN Min(g[i] + 1, IntelDelayTicks) ELSE g[i]]

intel02_digit_w(data) ==
    /\ driver = "intel02"
    /\ intel02_digit_data' = bitswap8(data, 7, 0, 1, 2, 3, 4, 5, 6)
    /\ intel02_out_digit' = intel02_update_digits(intel02_led_select, intel02_led_active,
                                                   intel02_digit_data', intel02_out_digit)
    /\ intel02_out_led' = intel02_update_leds(intel02_led_active)
    /\ UNCHANGED <<intel02_led_select, intel02_led_active, intel02_beeper>>
    /\ UNCHANGED <<driver, intelTimers, intel02_reset_line, intelKeys, mk1Vars, gap>>

\* control_w that drops the active bit of a deselected line at once
intel02_control_active_nohold(act, data) == And8(data, 63)

\* m_led_active after the loop of control_w
intel02_control_active(act, data) == Or8(act, And8(data, 63))

\* control_w that arms the timer of every line whose data bit is clear
intel02_control_timers_always(timers, sel, data) ==
    [i \in IntelLines |-> IF BIT(data, i) = 0 THEN IntelDelayTicks ELSE timers[i]]

\* control_w that leaves a timer that is already pending alone
intel02_control_timers_keep(timers, sel, data) ==
    [i \in IntelLines |->
        IF BIT(data, i) = 0 /\ BIT(sel, i) = 1 /\ timers[i] = Idle
        THEN IntelDelayTicks ELSE timers[i]]

\* m_delay_display after the loop of control_w
intel02_control_timers(timers, sel, data) ==
    [i \in IntelLines |->
        IF BIT(data, i) = 0 /\ BIT(sel, i) = 1 THEN IntelDelayTicks ELSE timers[i]]

\* control_w that restarts the update timer on every write
intel02_control_w_rearm(data) ==
    /\ driver = "intel02"
    /\ intel02_led_active' = intel02_control_active(intel02_led_active, data)
    /\ intel02_delay_display' =
          intel02_control_timers(intel02_delay_display, intel02_led_select, data)
    /\ intel02_led_select' = data
    /\ intel02_delay_update' = IntelUpdateTicks
    /\ intel02_beeper' = BIT(data, 7)
    /\ gap' = [i \in IntelLines |-> IF BIT(data, i) = 1 \/ BIT(intel02_led_select, i) = 1
                                    THEN 0 ELSE gap[i]]
    /\ UNCHANGED <<intel02_digit_data, intel02_out_digit, intel02_out_led>>
    /\ UNCHANGED <<driver, intel02_reset_line, intelKeys, mk1Vars>>

intel02_control_w(data) ==
    /\ driver = "intel02"
    /\ intel02_led_active' = intel02_control_active(intel02_led_active, data)
    /\ intel02_delay_display' =
          intel02_control_timers(intel02_delay_display, intel02_led_select, data)
    /\ intel02_led_select' = data
    /\ intel02_delay_update' =
          IF ~enabled(intel02_delay_update) THEN IntelUpdateTicks ELSE intel02_delay_update
    /\ intel02_beeper' = BIT(data, 7)
    /\ gap' = [i \in IntelLines |-> IF BIT(data, i) = 1 \/ BIT(intel02_led_select, i) = 1
                                    THEN 0 ELSE gap[i]]
    /\ UNCHANGED <<intel02_digit_data, intel02_out_digit, intel02_out_led>>
    /\ UNCHANGED <<driver, intel02_reset_line, intelKeys, mk1Vars>>

\* TIMER_DEVICE_CALLBACK delay_update, run when m_delay_update expires
intel02_delay_update_cb ==
    /\ driver = "intel02"
    /\ intel02_delay_update = 0
    /\ intel02_delay_update' = Idle
    /\ intel02_out_digit' = intel02_update_digits(intel02_led_select, intel02_led_active,
                                                   intel02_digit_data, intel02_out_digit)
    /\ intel02_out_led' = intel02_update_leds(intel02_led_active)
    /\ UNCHANGED <<intel02_digit_data, intel02_led_select, intel02_led_active, intel02_beeper>>
    /\ UNCHANGED <<driver, intel02_delay_display, intel02_reset_line, intelKeys, mk1Vars, gap>>

\* delay_display that clears the bit without looking at m_led_select
intel02_delay_active_noselect(act, sel, param) == And8(act, Not8(Pow2(param)))

\* m_led_active after delay_display(param)
intel02_delay_active(act, sel, param) ==
    Or8(And8(act, Not8(Pow2(param))), And8(sel, Pow2(param)))

\* delay_display that updates m_led_active without calling update_display
intel02_delay_display_cb_norefresh(param) ==
    /\ driver = "intel02"
    /\ intel02_delay_display[param] = 0
    /\ intel02_delay_display' = [intel02_delay_display EXCEPT ![param] = Idle]
    /\ intel02_led_active' = intel02_delay_active(intel02_led_active, intel02_led_select, param)
    /\ UNCHANGED <<intel02_digit_data, intel02_led_select, intel02_beeper,
                   intel02_out_digit, intel02_out_led>>
    /\ UNCHANGED <<driver, intel02_delay_update, intel02_reset_line, intelKeys, mk1Vars, gap>>

\* TIMER_DEVICE_CALLBACK delay_display, run when m_delay_display[param] expires
intel02_delay_display_cb(param) ==
    /\ driver = "intel02"
    /\ intel02_delay_display[param] = 0
    /\ intel02_delay_display' = [intel02_delay_display EXCEPT ![param] = Idle]
    /\ intel02_led_active' = intel02_delay_active(intel02_led_active, intel02_led_select, param)
    /\ intel02_out_digit' = intel02_update_digits(intel02_led_select, intel02_led_active',
                                                   intel02_digit_data, intel02_out_digit)
    /\ intel02_out_led' = intel02_update_leds(intel02_led_active')
    /\ UNCHANGED <<intel02_digit_data, intel02_led_select, intel02_beeper>>
    /\ UNCHANGED <<driver, intel02_delay_update, intel02_reset_line, intelKeys, mk1Vars, gap>>

\* reset_button that also clears the display, as mk1 reset_switch does
intel02_reset_button_clear(newval) ==
    /\ driver = "intel02"
    /\ newval # intel02_reset_line
    /\ intel02_reset_line' = newval
    /\ IF newval # 0
       THEN /\ intel02_led_select' = 0
            /\ intel02_out_digit' = [i \in IntelDigits |-> 0]
       ELSE UNCHANGED <<intel02_led_select, intel02_out_digit>>
    /\ UNCHANGED <<intel02_digit_data, intel02_led_active, intel02_out_led, intel02_beeper>>
    /\ UNCHANGED <<driver, intelTimers, intelKeys, mk1Vars, gap>>

\* INPUT_CHANGED reset_button: newval is the new state of the button
intel02_reset_button(newval) ==
    /\ driver = "intel02"
    /\ newval # intel02_reset_line
    /\ intel02_reset_line' = newval
    /\ UNCHANGED <<driver, intelDisplay, intelTimers, intelKeys, mk1Vars, gap>>

\* scancode with the offset one too small
intel02_scancode_off(in0) == (count_leading_zeros(in0) - 16) % 256

\* the 4-bit scancode of the IN.0 buttons (d0-d3 of input_r)
intel02_scancode(in0) == (count_leading_zeros(in0) - 17) % 256

\* input_r without the inversion of IN.1
intel02_input_value_noinv(in0, in1) ==
    Or8(intel02_scancode(in0), And8((in1 * 16) % 256, 240))

\* the value input_r returns for the port values in0 (IN.0) and in1 (IN.1)
intel02_input_value(in0, in1) ==
    Or8(intel02_scancode(in0), And8((Not8(in1) * 16) % 256, 240))

intel02_input_r ==
    /\ driver = "intel02"
    /\ intel02_input' = intel02_input_value(intel02_IN0, intel02_IN1)
    /\ UNCHANGED <<driver, intelDisplay, intelTimers, intel02_reset_line,
                   intel02_IN0, intel02_IN1, mk1Vars, gap>>

\* the clock advances by one tick; no expired timer is waiting for its callback
intel02_Tick ==
    /\ driver = "intel02"
    /\ intel02_delay_update # 0
    /\ \A i \in IntelLines : intel02_delay_display[i] # 0
    /\ intel02_delay_update' = TickTimer(intel02_delay_update)
    /\ intel02_delay_display' = [i \in IntelLines |-> TickTimer(intel02_delay_display[i])]
    /\ gap' = IntelGap(intel02_led_select, gap)
    /\ UNCHANGED <<driver, intelDisplay, intel02_reset_line, intelKeys, mk1Vars>>

(***************************************************************************)
(* Chess Champion MK I / CompuChess                                        *)
(***************************************************************************)
mk1_machine_start ==
    /\ mk1_digit_select = 0
    /\ mk1_digit_data = 0
    /\ mk1_blink = FALSE
    /\ mk1_out_digit = [i \in Mk1Digits |-> 0]
    /\ mk1_delay_display = [i \in Mk1Digits |-> Idle]
    /\ mk1_blink_display = Mk1BlinkTicks
    /\ mk1_reset_line = 0
    /\ mk1_keypad = [i \in Mk1Digits |-> 0]
    /\ mk1_input = -1

\* segments that ignore the blink phase
mk1_segments_noblink(data, blink) ==
    LET mask == IF data = 1 THEN 128 ELSE 127
    IN  And8(bitswap8(data, 0, 2, 1, 3, 4, 5, 6, 7), mask)

\* segments without the DP-only case (mask 0x7f for every value)
mk1_segments_nodp(data, blink) ==
    LET mask == IF blink /\ BIT(data, 0) = 1 THEN 0 ELSE 127
    IN  And8(bitswap8(data, 0, 2, 1, 3, 4, 5, 6, 7), mask)

\* the segments a selected digit shows for m_digit_data and m_blink
mk1_segments(data, blink) ==
    LET mask1 == IF data = 1 THEN 128 ELSE 127
        mask  == IF blink /\ BIT(data, 0) = 1 THEN 0 ELSE mask1
    IN  And8(bitswap8(data, 0, 2, 1, 3, 4, 5, 6, 7), mask)

\* update_display that drives all four digits whatever m_digit_select is
mk1_update_display_all(sel, data, blink, out) ==
    [i \in Mk1Digits |-> mk1_segments(data, blink)]

\* the digit outputs after update_display
mk1_update_display(sel, data, blink, out) ==
    [i \in Mk1Digits |-> IF BIT(sel, i) = 0 THEN mk1_segments(data, blink) ELSE out[i]]

\* gap after one more tick
Mk1Gap(sel, g) ==
    [i \in Mk1Digits |->
        IF BIT(sel, i) = 1 /\ g[i] >= 0 THEN Min(g[i] + 1, Mk1DelayTicks) ELSE g[i]]

\* reset_switch that deselects the digits but leaves blanking to the timers
mk1_reset_switch_noclear(newval) ==
    /\ driver = "mk1"
    /\ newval # mk1_reset_line
    /\ mk1_reset_line' = newval
    /\ IF newval # 0
       THEN /\ mk1_digit_select' = 255
            /\ gap' = [i \in Mk1Digits |-> IF BIT(mk1_digit_select, i) = 0 THEN 0 ELSE gap[i]]
       ELSE UNCHANGED <<mk1_digit_select, gap>>
    /\ UNCHANGED <<driver, mk1_out_digit, mk1_digit_data, mk1_blink, mk1Timers, mk1Keys, intelVars>>

\* INPUT_CHANGED reset_switch: newval is the new state of the switch
mk1_reset_switch(newval) ==
    /\ driver = "mk1"
    /\ newval # mk1_reset_line
    /\ mk1_reset_line' = newval
    /\ IF newval # 0
       THEN /\ mk1_digit_select' = 255
            /\ mk1_out_digit' = [i \in Mk1Digits |-> 0]
            /\ gap' = [i \in Mk1Digits |-> IF BIT(mk1_digit_select, i) = 0 THEN 0 ELSE gap[i]]
       ELSE UNCHANGED <<mk1_digit_select, mk1_out_digit, gap>>
    /\ UNCHANGED <<driver, mk1_digit_data, mk1_blink, mk1Timers, mk1Keys, intelVars>>

\* delay_display that expires without clearing the digit
mk1_delay_display_cb_keep(param) ==
    /\ driver = "mk1"
    /\ mk1_delay_display[param] = 0
    /\ mk1_delay_display' = [mk1_delay_display EXCEPT ![param] = Idle]
    /\ UNCHANGED <<mk1_digit_select, mk1_digit_data, mk1_blink, mk1_out_digit>>
    /\ UNCHANGED <<driver, mk1_blink_display, mk1_reset_line, mk1Keys, intelVars, gap>>

\* TIMER_DEVICE_CALLBACK delay_display, run when m_delay_display[param] expires
mk1_delay_display_cb(param) ==
    /\ driver = "mk1"
    /\ mk1_delay_display[param] = 0
    /\ mk1_delay_display' = [mk1_delay_display EXCEPT ![param] = Idle]
    /\ mk1_out_digit' = IF BIT(mk1_digit_select, param) = 1
                        THEN [mk1_out_digit EXCEPT ![param] = 0]
                        ELSE mk1_out_digit
    /\ UNCHANGED <<mk1_digit_select, mk1_digit_data, mk1_blink>>
    /\ UNCHANGED <<driver, mk1_blink_display, mk1_reset_line, mk1Keys, intelVars, gap>>

\* TIMER_DEVICE_CALLBACK blink, run every period of blink_display
mk1_blink_cb ==
    /\ driver = "mk1"
    /\ mk1_blink_display = 0
    /\ mk1_blink_display' = Mk1BlinkTicks
    /\ mk1_blink' = ~mk1_blink
    /\ mk1_out_digit' = mk1_update_display(mk1_digit_select, mk1_digit_data, mk1_blink',
                                           mk1_out_digit)
    /\ UNCHANGED <<mk1_digit_select, mk1_digit_data>>
    /\ UNCHANGED <<driver, mk1_delay_display, mk1_reset_line, mk1Keys, intelVars, gap>>

mk1_digit_data_w(data) ==
    /\ driver = "mk1"
    /\ mk1_digit_data' = data
    /\ mk1_out_digit' = mk1_update_display(mk1_digit_select, data, mk1_blink, mk1_out_digit)
    /\ mk1_input' = -1
    /\ UNCHANGED <<mk1_digit_select, mk1_blink>>
    /\ UNCHANGED <<driver, mk1Timers, mk1_reset_line, mk1_keypad, intelVars, gap>>

\* digit_select_w that arms the timer of every digit the data leaves unselected
mk1_select_timers_level(timers, sel, data) ==
    [i \in Mk1Digits |-> IF BIT(data, i) = 1 THEN Mk1DelayTicks ELSE timers[i]]

\* m_delay_display after the loop of digit_select_w
mk1_select_timers(timers, sel, data) ==
    [i \in Mk1Digits |->
        IF BIT(And8(Not8(sel), data), i) = 1 THEN Mk1DelayTicks ELSE timers[i]]

mk1_digit_select_w(data) ==
    /\ driver = "mk1"
    /\ mk1_delay_display' = mk1_select_timers(mk1_delay_display, mk1_digit_select, data)
    /\ mk1_digit_select' = data
    /\ mk1_out_digit' = mk1_update_display(data, mk1_digit_data, mk1_blink, mk1_out_digit)
    /\ gap' = [i \in Mk1Digits |-> IF BIT(data, i) = 0 \/ BIT(mk1_digit_select, i) = 0
                                   THEN 0 ELSE gap[i]]
    /\ UNCHANGED <<mk1_digit_data, mk1_blink>>
    /\ UNCHANGED <<driver, mk1_blink_display, mk1_reset_line, mk1Keys, intelVars>>

\* d0-d3 of input_r: bit i is set when m_digit_data meets line i
mk1_input_low(data, lines) ==
    Pack8(LAMBDA n : IF n \in Mk1Digits /\ And8(data, lines[n]) # 0 THEN 1 ELSE 0)

\* input_r that takes a line into d4-d7 when its index bit is clear
mk1_input_high_inv(data, lines) ==
    Pack8(LAMBDA n : IF \E i \in Mk1Digits : BIT(data, i) = 0 /\ BIT(lines[i], n) = 1
                     THEN 1 ELSE 0)

\* d4-d7 of input_r: the lines whose index bit is set in m_digit_data
mk1_input_high(data, lines) ==
    Pack8(LAMBDA n : IF \E i \in Mk1Digits : BIT(data, i) = 1 /\ BIT(lines[i], n) = 1
                     THEN 1 ELSE 0)

\* input_r that returns the key bits alone, without m_digit_data
mk1_input_value_keys(data, lines) ==
    Or8(mk1_input_low(data, lines), mk1_input_high(data, lines))

\* the value input_r returns for m_digit_data and the four key lines
mk1_input_value(data, lines) ==
    Or8(Or8(data, mk1_input_low(data, lines)), mk1_input_high(data, lines))

\* input_r that takes m_digit_select for the input mux
mk1_input_r_select ==
    /\ driver = "mk1"
    /\ mk1_input' = mk1_input_value(mk1_digit_select, mk1_keypad)
    /\ UNCHANGED <<driver, mk1Display, mk1Timers, mk1_reset_line, mk1_keypad, intelVars, gap>>

mk1_input_r ==
    /\ driver = "mk1"
    /\ mk1_input' = mk1_input_value(mk1_digit_data, mk1_keypad)
    /\ UNCHANGED <<driver, mk1Display, mk1Timers, mk1_reset_line, mk1_keypad, intelVars, gap>>

\* the clock advances by one tick; no expired timer is waiting for its callback
mk1_Tick ==
    /\ driver = "mk1"
    /\ mk1_blink_display # 0
    /\ \A i \in Mk1Digits : mk1_delay_display[i] # 0
    /\ mk1_blink_display' = TickTimer(mk1_blink_display)
    /\ mk1_delay_display' = [i \in Mk1Digits |-> TickTimer(mk1_delay_display[i])]
    /\ gap' = Mk1Gap(mk1_digit_select, gap)
    /\ UNCHANGED <<driver, mk1Display, mk1_reset_line, mk1Keys, intelVars>>

(***************************************************************************)
(* The machines                                                            *)
(***************************************************************************)
Init ==
    /\ driver \in {"intel02", "mk1"}
    /\ intel02_machine_start
    /\ mk1_machine_start
    /\ gap = IF driver = "intel02" THEN [i \in IntelLines |-> -1] ELSE [i \in Mk1Digits |-> 0]

NextIntel ==
    \/ \E data \in IntelDigitData : intel02_digit_w(data)
    \/ \E data \in IntelControlData : intel02_control_w(data)
    \/ intel02_delay_update_cb
    \/ \E param \in IntelLines : intel02_delay_display_cb(param)
    \/ \E newval \in {0, 1} : intel02_reset_button(newval)
    \/ intel02_Tick

NextMk1 ==
    \/ \E data \in Mk1DigitData : mk1_digit_data_w(data)
    \/ \E data \in Mk1SelectData : mk1_digit_select_w(data)
    \/ \E param \in Mk1Digits : mk1_delay_display_cb(param)
    \/ mk1_blink_cb
    \/ \E newval \in {0, 1} : mk1_reset_switch(newval)
    \/ mk1_Tick

Next == NextIntel \/ NextMk1

\* either machine
Spec == Init /\ [][Next]_vars

\* the Intellect-02 alone
InitIntel == Init /\ driver = "intel02"
SpecIntel == InitIntel /\ [][NextIntel]_vars

\* the MK I alone
InitMk1 == Init /\ driver = "mk1"
SpecMk1 == InitMk1 /\ [][NextMk1]_vars

(***************************************************************************)
(* Keypad reads of the Intellect-02 over every value of its two ports      *)
(***************************************************************************)
\* PORT_BIT masks of IN.0 and IN.1
IN0_MASK == 32767
IN1_MASK == 15

InitKeys ==
    /\ driver = "intel02"
    /\ intel02_digit_data = 0
    /\ intel02_led_select = 0
    /\ intel02_led_active = 0
    /\ intel02_out_digit = [i \in IntelDigits |-> 0]
    /\ intel02_out_led = [i \in 0 .. 1 |-> 0]
    /\ intel02_delay_update = Idle
    /\ intel02_delay_display = [i \in IntelLines |-> Idle]
    /\ intel02_beeper = 0
    /\ intel02_reset_line = 0
    /\ intel02_IN0 \in 0 .. IN0_MASK
    /\ intel02_IN1 \in 0 .. IN1_MASK
    /\ intel02_input = -1
    /\ mk1_machine_start
    /\ gap = [i \in IntelLines |-> -1]

NextKeys == intel02_input_r

SpecKeys == InitKeys /\ [][NextKeys]_vars

(***************************************************************************)
(* Keypad reads of the MK I over every data byte and a set of line values  *)
(***************************************************************************)
\* values of one key line (PORT_BIT 0x10..0x80): none, one key, all four
Mk1LineData == {0, 16, 32, 128, 240}

\* the state after machine_start and digit_data_w(d), for every byte d
InitMk1Keys ==
    /\ driver = "mk1"
    /\ intel02_machine_start
    /\ mk1_digit_select = 0
    /\ mk1_digit_data \in 0 .. 255
    /\ mk1_blink = FALSE
    /\ mk1_out_digit = [i \in Mk1Digits |-> mk1_segments(mk1_digit_data, FALSE)]
    /\ mk1_delay_display = [i \in Mk1Digits |-> Idle]
    /\ mk1_blink_display = Mk1BlinkTicks
    /\ mk1_reset_line = 0
    /\ mk1_keypad \in [Mk1Digits -> Mk1LineData]
    /\ mk1_input = -1
    /\ gap = [i \in Mk1Digits |-> 0]

NextMk1Keys == mk1_input_r

SpecMk1Keys == InitMk1Keys /\ [][NextMk1Keys]_vars

(***************************************************************************)
(* The Intellect-02 with both leds strobed                                 *)
(***************************************************************************)
\* control_w data: digit 0, lose led (d4), win led (d5)
LedControlData == {0, 1, 16, 32, 48, 49}

NextLeds ==
    \/ intel02_digit_w(65)
    \/ \E data \in LedControlData : intel02_control_w(data)
    \/ intel02_delay_update_cb
    \/ \E param \in IntelLines : intel02_delay_display_cb(param)
    \/ intel02_Tick

SpecLeds == InitIntel /\ [][NextLeds]_vars

(***************************************************************************)
(* The Intellect-02 running the three writes select 0b0011, data, select   *)
(* 0b0001 from power-on, for every nonzero data byte, at any pace          *)
(***************************************************************************)
ScenarioData == 1 .. 255

NextScenario ==
    \/ intel02_led_select = 0 /\ intel02_control_w(3)
    \/ /\ intel02_led_select = 3 /\ intel02_digit_data = 0
       /\ \E data \in ScenarioData : intel02_digit_w(data)
    \/ intel02_led_select = 3 /\ intel02_digit_data # 0 /\ intel02_control_w(1)
    \/ intel02_delay_update_cb
    \/ \E param \in IntelLines : intel02_delay_display_cb(param)
    \/ intel02_Tick

\* the CPU goes on to its next write and expired timers run their callbacks
SpecScenario == InitIntel /\ [][NextScenario]_vars /\ WF_vars(NextScenario)

(***************************************************************************)
(* The Intellect-02 under bursts of select writes; the clock advances and  *)
(* expired timers run their callbacks                                      *)
(***************************************************************************)
\* control_w data: digits 0 and 1
BurstControlData == {0, 1, 2, 3}

NextBurst ==
    \/ \E data \in IntelDigitData : intel02_digit_w(data)
    \/ \E data \in BurstControlData : intel02_control_w(data)
    \/ intel02_delay_update_cb
    \/ \E param \in IntelLines : intel02_delay_display_cb(param)
    \/ intel02_Tick

IntelFair ==
    /\ WF_vars(intel02_Tick)
    /\ WF_vars(intel02_delay_update_cb)
    /\ \A param \in IntelLines : WF_vars(intel02_delay_display_cb(param))

SpecBurst == InitIntel /\ [][NextBurst]_vars /\ IntelFair

\* both leds strobed, the clock advancing and expired timers running
SpecLedsFair == SpecLeds /\ IntelFair

(***************************************************************************)
(* The MK I strobing two digits; the clock advances and expired timers run *)
(* their callbacks                                                         *)
(***************************************************************************)
\* digit_select_w data: digits 0 and 1
StrobeSelectData == {255, 254, 252}
\* digit_data_w data: odd and even segment data
StrobeDigitData == {3, 6}

NextStrobe ==
    \/ \E data \in StrobeDigitData : mk1_digit_data_w(data)
    \/ \E data \in StrobeSelectData : mk1_digit_select_w(data)
    \/ \E param \in Mk1Digits : mk1_delay_display_cb(param)
    \/ mk1_blink_cb
    \/ \E newval \in {0, 1} : mk1_reset_switch(newval)
    \/ mk1_Tick

Mk1Fair ==
    /\ WF_vars(mk1_Tick)
    /\ WF_vars(mk1_blink_cb)
    /\ \A param \in Mk1Digits : WF_vars(mk1_delay_display_cb(param))

SpecStrobe == InitMk1 /\ [][NextStrobe]_vars /\ Mk1Fair

(***************************************************************************)
(* Segment decode of the MK I over every data byte, all digits selected    *)
(***************************************************************************)
NextSegments ==
    \/ \E data \in 0 .. 255 : mk1_digit_data_w(data)
    \/ mk1_blink_cb
    \/ mk1_Tick

SpecSegments == InitMk1 /\ [][NextSegments]_vars

(***************************************************************************)
(* Both machines with the keypad reads among the writes and the timers     *)
(***************************************************************************)
\* bytes written while the keypad is read
ReadControlData == {0, 1, 3}
ReadDigitData == {0, 65}
ReadSelectData == {255, 254, 252}
ReadMk1Data == {6, 33}

\* key states held during a run: no key, or some keys of several lines
ReadIntelKeys == {<<0, 0>>, <<8200, 2>>}
ReadMk1Keys == {<<0, 0, 0, 0>>, <<128, 32, 16, 0>>}

InitRead ==
    /\ driver \in {"intel02", "mk1"}
    /\ intel02_digit_data = 0
    /\ intel02_led_select = 0
    /\ intel02_led_active = 0
    /\ intel02_out_digit = [i \in IntelDigits |-> 0]
    /\ intel02_out_led = [i \in 0 .. 1 |-> 0]
    /\ intel02_delay_update = Idle
    /\ intel02_delay_display = [i \in IntelLines |-> Idle]
    /\ intel02_beeper = 0
    /\ intel02_reset_line = 0
    /\ \E k \in (IF driver = "intel02" THEN ReadIntelKeys ELSE {<<0, 0>>}) :
          intel02_IN0 = k[1] /\ intel02_IN1 = k[2]
    /\ intel02_input = -1
    /\ mk1_digit_select = 0
    /\ mk1_digit_data = 0
    /\ mk1_blink = FALSE
    /\ mk1_out_digit = [i \in Mk1Digits |-> 0]
    /\ mk1_delay_display = [i \in Mk1Digits |-> Idle]
    /\ mk1_blink_display = Mk1BlinkTicks
    /\ mk1_reset_line = 0
    /\ \E k \in (IF driver = "mk1" THEN ReadMk1Keys ELSE {<<0, 0, 0, 0>>}) :
          mk1_keypad = [i \in Mk1Digits |-> k[i + 1]]
    /\ mk1_input = -1
    /\ gap = IF driver = "intel02" THEN [i \in IntelLines |-> -1] ELSE [i \in Mk1Digits |-> 0]

NextRead ==
    \/ \E data \in ReadDigitData : intel02_digit_w(data)
    \/ \E data \in ReadControlData : intel02_control_w(data)
    \/ intel02_delay_update_cb
    \/ \E param \in IntelLines : intel02_delay_display_cb(param)
    \/ \E newval \in {0, 1} : intel02_reset_button(newval)
    \/ intel02_input_r
    \/ intel02_Tick
    \/ \E data \in ReadMk1Data : mk1_digit_data_w(data)
    \/ \E data \in ReadSelectData : mk1_digit_select_w(data)
    \/ \E param \in Mk1Digits : mk1_delay_display_cb(param)
    \/ mk1_blink_cb
    \/ \E newval \in {0, 1} : mk1_reset_switch(newval)
    \/ mk1_input_r
    \/ mk1_Tick

SpecRead == InitRead /\ [][NextRead]_vars

TypeOK ==
    /\ driver \in {"intel02", "mk1"}
    /\ intel02_digit_data \in 0 .. 255
    /\ intel02_led_select \in 0 .. 255
    /\ intel02_led_active \in 0 .. 63
    /\ \A i \in IntelDigits : intel02_out_digit[i] \in 0 .. 255
    /\ \A i \in IntelLines : intel02_delay_display[i] \in Idle .. IntelDelayTicks
    /\ intel02_delay_update \in Idle .. IntelUpdateTicks
    /\ mk1_digit_select \in 0 .. 255
    /\ mk1_digit_data \in 0 .. 255
    /\ \A i \in Mk1Digits : mk1_out_digit[i] \in 0 .. 255
    /\ \A i \in Mk1Digits : mk1_delay_display[i] \in Idle .. Mk1DelayTicks
    /\ mk1_blink_display \in 0 .. Mk1BlinkTicks
    /\ \A i \in Mk1Digits : mk1_keypad[i] \in 0 .. 255
    /\ mk1_input \in -1 .. 255

(***************************************************************************)
(* Properties                                                              *)
(***************************************************************************)
IntelSelected(i) == BIT(intel02_led_select, i) = 1
IntelActive(i) == BIT(intel02_led_active, i) = 1
Mk1Selected(i) == BIT(mk1_digit_select, i) = 0

\* every selected line is active
C1_SelectWithinActive ==
    \A i \in IntelLines : IntelSelected(i) => IntelActive(i)

\* a step that clears bit i of m_led_active is the callback of timer i
C1_OnlyTimerClears ==
    [][\A i \in IntelLines :
          (IntelActive(i) /\ BIT(intel02_led_active', i) = 0) => intel02_delay_display_cb(i)]_vars

\* C1: Intellect-02: every bit 0..5 set in m_led_select is set in m_led_active
\* in every reachable state, and a step that clears bit i of m_led_active is
\* the delay_display callback with param i.
ClaimC1 == []C1_SelectWithinActive /\ C1_OnlyTimerClears

\* a line is selected (and active), another is held active by its pending timer,
\* and a third was deselected a full delay ago and has had its bit cleared
WitnessC1 ==
    /\ driver = "intel02"
    /\ \E i, j, k \in IntelLines :
          /\ IntelSelected(i) /\ IntelActive(i)
          /\ ~IntelSelected(j) /\ IntelActive(j) /\ intel02_delay_display[j] > 0
          /\ ~IntelSelected(k) /\ ~IntelActive(k)
          /\ gap[k] = IntelDelayTicks /\ intel02_delay_display[k] = Idle

\* C2: Intellect-02: a step that leaves select bit i (0..3) set never turns
\* digit i from non-blank to blank unless the latched m_digit_data is 0 after
\* the step; this covers delay_display callbacks.
ClaimC2 ==
    [][\A i \in IntelDigits :
          ( /\ IntelSelected(i) /\ BIT(intel02_led_select', i) = 1
            /\ intel02_out_digit[i] # 0 /\ intel02_out_digit'[i] = 0 )
          => intel02_digit_data' = 0]_vars

\* a selected digit is lit with the latched data while its superseded
\* deflicker timer has expired, and another digit has been blanked
WitnessC2 ==
    /\ driver = "intel02"
    /\ \E i, k \in IntelDigits :
          /\ IntelSelected(i) /\ intel02_out_digit[i] # 0
          /\ intel02_out_digit[i] = intel02_digit_data
          /\ intel02_delay_display[i] = 0
          /\ ~IntelSelected(k) /\ gap[k] = IntelDelayTicks /\ intel02_out_digit[k] = 0

\* C3 as stated: MK I: after a step that leaves digit i selected, the digit is
\* not blank while m_digit_data is nonzero.
OrigC3 ==
    [][\A i \in Mk1Digits :
          (Mk1Selected(i) /\ BIT(mk1_digit_select', i) = 0 /\ mk1_out_digit'[i] = 0)
          => mk1_digit_data' = 0]_vars

\* C3 amended: MK I: after a step that leaves digit i selected, the digit is
\* not blank while m_digit_data is nonzero, except when bit 0 of m_digit_data
\* is set and the blink phase m_blink is on.
ClaimC3 ==
    [][\A i \in Mk1Digits :
          (Mk1Selected(i) /\ BIT(mk1_digit_select', i) = 0 /\ mk1_out_digit'[i] = 0)
          => (mk1_digit_data' = 0 \/ (mk1_blink' /\ BIT(mk1_digit_data', 0) = 1))]_vars

\* a selected digit is blank with odd data that has other segments, blink on,
\* while the deflicker timer of another digit is pending
WitnessC3 ==
    /\ driver = "mk1"
    /\ \E i, j \in Mk1Digits :
          /\ Mk1Selected(i) /\ mk1_digit_data = 3 /\ mk1_blink
          /\ mk1_out_digit[i] = 0
          /\ ~Mk1Selected(j) /\ mk1_delay_display[j] > 0

\* a timer that is pending and not re-armed in the step: it keeps its value or
\* counts one tick down
CountsDown(t, tnext) == tnext = t \/ (t > 0 /\ tnext = t - 1)

\* C4 on the Intellect-02, for the step from the current state
C4_Intel(i) ==
    /\ (IntelSelected(i) /\ BIT(intel02_led_select', i) = 0)
          => /\ intel02_delay_display'[i] = IntelDelayTicks
             /\ intel02_out_digit'[i] = intel02_out_digit[i]
             /\ gap'[i] = 0
    /\ ( /\ ~IntelSelected(i) /\ BIT(intel02_led_select', i) = 0
         /\ intel02_delay_display[i] # Idle
         /\ ~intel02_delay_display_cb(i) )
          => /\ intel02_out_digit'[i] = intel02_out_digit[i]
             /\ CountsDown(intel02_delay_display[i], intel02_delay_display'[i])
             /\ gap[i] + intel02_delay_display[i] = IntelDelayTicks
    /\ (~IntelSelected(i) /\ intel02_delay_display_cb(i))
          => /\ intel02_out_digit'[i] = 0
             /\ gap[i] = IntelDelayTicks

\* C4 on the MK I, for the step from the current state
C4_Mk1(i) ==
    /\ (Mk1Selected(i) /\ BIT(mk1_digit_select', i) = 1 /\ ~mk1_reset_switch(1))
          => /\ mk1_delay_display'[i] = Mk1DelayTicks
             /\ mk1_out_digit'[i] = mk1_out_digit[i]
             /\ gap'[i] = 0
    /\ ( /\ ~Mk1Selected(i) /\ BIT(mk1_digit_select', i) = 1
         /\ mk1_delay_display[i] # Idle
         /\ ~mk1_delay_display_cb(i) /\ ~mk1_reset_switch(1) )
          => /\ mk1_out_digit'[i] = mk1_out_digit[i]
             /\ CountsDown(mk1_delay_display[i], mk1_delay_display'[i])
             /\ gap'[i] - gap[i] = mk1_delay_display[i] - mk1_delay_display'[i]
    /\ (~Mk1Selected(i) /\ mk1_delay_display_cb(i))
          => /\ mk1_out_digit'[i] = 0
             /\ (mk1_out_digit[i] # 0 => gap[i] = Mk1DelayTicks)

\* C4: in each variant a select write that deselects digit i arms timer i for
\* the full delay and keeps the output; while the digit stays unselected and
\* no reset is asserted, every step other than the callback of timer i keeps
\* the output and lets the timer count down with the elapsed time without
\* re-arming it; the callback of timer i on an unselected digit runs a full
\* delay after the deselection and leaves the digit blank.
ClaimC4 ==
    [][ /\ \A i \in IntelDigits : C4_Intel(i)
        /\ \A i \in Mk1Digits : C4_Mk1(i) ]_vars

\* Intellect-02: a digit was blanked a full delay after its deselection while
\* another, deselected later, still holds a value that differs from the data
\* latched since
WitnessC4 ==
    /\ driver = "intel02"
    /\ \E i, j \in IntelDigits :
          /\ ~IntelSelected(i) /\ gap[i] = IntelDelayTicks
          /\ intel02_delay_display[i] = Idle /\ intel02_out_digit[i] = 0
          /\ ~IntelSelected(j) /\ gap[j] = 1 /\ intel02_delay_display[j] = IntelDelayTicks - 1
          /\ intel02_out_digit[j] # 0 /\ intel02_out_digit[j] # intel02_digit_data

\* a callback of timer i that turns digit i from non-blank to blank or (on the
\* Intellect-02) clears bit i of m_led_active
IntelBlanks(i) ==
    /\ intel02_delay_display_cb(i)
    /\ \/ IntelActive(i) /\ BIT(intel02_led_active', i) = 0
       \/ i \in IntelDigits /\ intel02_out_digit[i] # 0 /\ intel02_out_digit'[i] = 0

Mk1Blanks(i) ==
    /\ mk1_delay_display_cb(i)
    /\ mk1_out_digit[i] # 0 /\ mk1_out_digit'[i] = 0

IntelRefresh ==
    \/ \E data \in IntelDigitData : intel02_digit_w(data)
    \/ intel02_delay_update_cb
    \/ \E param \in IntelLines : intel02_delay_display_cb(param)

\* C6: Intellect-02: after update_display a digit whose select bit is set
\* shows m_digit_data, a digit that is only active keeps its output, any other
\* digit is blank, and the leds show bits 4 and 5 of m_led_active (all taken
\* as they are at that refresh); all selected digits show the same value.
ClaimC6 ==
    [][ IntelRefresh =>
          /\ \A i \in IntelDigits :
                /\ BIT(intel02_led_select', i) = 1
                      => intel02_out_digit'[i] = intel02_digit_data'
                /\ (BIT(intel02_led_select', i) = 0 /\ BIT(intel02_led_active', i) = 1)
                      => intel02_out_digit'[i] = intel02_out_digit[i]
                /\ (BIT(intel02_led_select', i) = 0 /\ BIT(intel02_led_active', i) = 0)
                      => intel02_out_digit'[i] = 0
          /\ intel02_out_led'[0] = (intel02_led_active' \div 16) % 2
          /\ intel02_out_led'[1] = (intel02_led_active' \div 32) % 2
          /\ \A i, j \in IntelDigits :
                (BIT(intel02_led_select', i) = 1 /\ BIT(intel02_led_select', j) = 1)
                      => intel02_out_digit'[i] = intel02_out_digit'[j] ]_vars

\* after a refresh (none pending): two selected digits show the latched data,
\* the lose led is lit from an active bit that is no longer selected
WitnessC6 ==
    /\ driver = "intel02"
    /\ intel02_delay_update = Idle
    /\ intel02_led_select = 3 /\ intel02_digit_data = 96
    /\ intel02_out_digit[0] = 96 /\ intel02_out_digit[1] = 96
    /\ intel02_out_digit[2] = 0
    /\ intel02_led_active = 19 /\ intel02_out_led[0] = 1 /\ intel02_out_led[1] = 0

\* C7: MK I: reset_switch with a nonzero value sets m_digit_select to 0xff and
\* all four outputs to 0 in that step and leaves every timer as it is; a
\* deflicker callback that runs in that state (all unselected, all blank)
\* changes neither the outputs nor m_digit_select.
ClaimC7 ==
    [][ /\ (mk1_reset_line = 0 /\ mk1_reset_line' # 0)
              => /\ mk1_digit_select' = 255
                 /\ \A i \in Mk1Digits : mk1_out_digit'[i] = 0
                 /\ mk1_delay_display' = mk1_delay_display
        /\ \A param \in Mk1Digits :
              ( /\ mk1_delay_display_cb(param)
                /\ mk1_digit_select = 255
                /\ \A i \in Mk1Digits : mk1_out_digit[i] = 0 )
              => (mk1_out_digit' = mk1_out_digit /\ mk1_digit_select' = mk1_digit_select)
      ]_vars

\* reset is asserted and has just deselected a digit that was showing segments
\* (its data is even and nonzero); the display is blank while deflicker timers
\* are still pending
WitnessC7 ==
    /\ driver = "mk1"
    /\ mk1_reset_line = 1 /\ mk1_digit_select = 255
    /\ \A i \in Mk1Digits : mk1_out_digit[i] = 0
    /\ mk1_digit_data = 6
    /\ \E i, j \in Mk1Digits :
          /\ gap[i] = 0 /\ mk1_delay_display[i] = Idle
          /\ mk1_delay_display[j] > 0

\* C8 as stated: Intellect-02: the step in which reset_button asserts the reset
\* line blanks the four digit outputs and clears m_led_select.
OrigC8 ==
    [][ (intel02_reset_line = 0 /\ intel02_reset_line' # 0)
          => /\ \A i \in IntelDigits : intel02_out_digit'[i] = 0
             /\ intel02_led_select' = 0 ]_vars

\* C8 amended: Intellect-02: reset_button only drives the CPU reset line; the
\* step changes no digit or led output, none of m_led_select, m_led_active and
\* m_digit_data, and no deflicker or update timer.
ClaimC8 ==
    [][ (intel02_reset_line' # intel02_reset_line)
          => /\ intel02_out_digit' = intel02_out_digit
             /\ intel02_out_led' = intel02_out_led
             /\ intel02_led_select' = intel02_led_select
             /\ intel02_led_active' = intel02_led_active
             /\ intel02_digit_data' = intel02_digit_data
             /\ intel02_delay_display' = intel02_delay_display
             /\ intel02_delay_update' = intel02_delay_update ]_vars

\* the reset line is asserted while a digit is selected and lit and timers
\* are pending
WitnessC8 ==
    /\ driver = "intel02"
    /\ intel02_reset_line = 1
    /\ \E i \in IntelDigits : IntelSelected(i) /\ intel02_out_digit[i] # 0
    /\ intel02_delay_update # Idle
    /\ \E j \in IntelLines : intel02_delay_display[j] > 0

\* the IN.0 masks with a single key pressed
SingleKeys == {Pow2(b) : b \in 0 .. 14}

\* C9: Intellect-02 input_r: for every IN.0 the scancode is the one value
\* 14 - b for the highest pressed bit b and 15 for the all-zero mask, always
\* within 0..15 (with IN.1 = 0x0f the whole result is the scancode); the code
\* read for a single-key mask differs from the code of every other single-key
\* mask, and the code read for the all-zero mask from that of every
\* single-key mask.
ClaimC9 ==
    (intel02_input # -1) =>
       LET code == intel02_input % 16
       IN  /\ intel02_IN1 = 15 => (intel02_input = code /\ intel02_input \in 0 .. 15)
           /\ intel02_IN0 = 0 => code = 15
           /\ \A b \in 0 .. 14 :
                 (Pow2(b) <= intel02_IN0 /\ intel02_IN0 < Pow2(b + 1)) => code = 14 - b
           /\ (intel02_IN0 \in SingleKeys \/ intel02_IN0 = 0) =>
                 \A k \in SingleKeys \ {intel02_IN0} : intel02_scancode(k) # code

\* a read with no key of IN.0 pressed and all four IN.1 lines active returns
\* the sentinel 15
WitnessC9 ==
    /\ intel02_IN0 = 0 /\ intel02_IN1 = 15 /\ intel02_input = 15

\* C10: Intellect-02 input_r: the low nibble of the result is the code of the
\* highest set bit of IN.0 whatever IN.1 is, and bit 4 + j of the result is
\* the inverse of bit j of IN.1 for j in 0..3 whatever IN.0 is (so the
\* scancode sets no bit of the high nibble, and bit 4 is 1 when IN.1 bit 0
\* is 0).
ClaimC10 ==
    (intel02_input # -1) =>
       /\ intel02_input \in 0 .. 255
       /\ \E b \in 0 .. 15 :
             /\ IF b = 15 THEN intel02_IN0 = 0
                ELSE Pow2(14 - b) <= intel02_IN0 /\ intel02_IN0 < Pow2(15 - b)
             /\ intel02_input % 16 = b
       /\ \A j \in 0 .. 3 :
             (intel02_input \div Pow2(4 + j)) % 2 = 1 - ((intel02_IN1 \div Pow2(j)) % 2)

\* A1 and View Position pressed together with Input: the code of A1 (1) in
\* the low nibble, the inverted IN.1 in the high nibble
WitnessC10 ==
    /\ intel02_IN0 = 8192 + 8 /\ intel02_IN1 = 2 /\ intel02_input = 209

\* C11: MK I input_r: with d = m_digit_data and L[0..3] the key lines, bit i
\* of the result (i in 0..3) is set whenever d AND L[i] is nonzero; for each i
\* whose bit is set in d every set bit of L[i] is set in the result; and bit n
\* of the high nibble is set only if it is set in d or in a line whose index
\* bit is set in d (a line whose index bit is clear adds nothing to it).
ClaimC11 ==
    (mk1_input # -1) =>
       /\ \A i \in Mk1Digits :
             (\E n \in 0 .. 7 : BIT(mk1_digit_data, n) = 1 /\ BIT(mk1_keypad[i], n) = 1)
                => (mk1_input \div Pow2(i)) % 2 = 1
       /\ \A i \in Mk1Digits :
             (mk1_digit_data \div Pow2(i)) % 2 = 1
                => \A n \in 0 .. 7 :
                      (mk1_keypad[i] \div Pow2(n)) % 2 = 1 => (mk1_input \div Pow2(n)) % 2 = 1
       /\ \A n \in 4 .. 7 :
             (mk1_input \div Pow2(n)) % 2 = 1
                <=> \/ (mk1_digit_data \div Pow2(n)) % 2 = 1
                    \/ \E i \in Mk1Digits :
                          /\ (mk1_digit_data \div Pow2(i)) % 2 = 1
                          /\ (mk1_keypad[i] \div Pow2(n)) % 2 = 1

\* d = 0x21: line 0 (index bit set) is taken into the high nibble, line 1
\* meets d5 and sets bit 1, line 2 (index bit clear, no common bit with d)
\* adds nothing
WitnessC11 ==
    /\ mk1_digit_data = 33
    /\ mk1_keypad[0] = 128 /\ mk1_keypad[1] = 32 /\ mk1_keypad[2] = 16 /\ mk1_keypad[3] = 0
    /\ mk1_input = 163

\* C12: in both variants a step that records a value read by input_r changes
\* no mask, no latched data, no digit or led output and no timer; a value
\* once read is read again by every later input_r as long as no data write
\* occurs (on the MK I; on the Intellect-02 even across data writes), whatever
\* timer firings and select writes happen in between, the key lines being
\* unchanged.
ClaimC12 ==
    [][ /\ (intel02_input' # intel02_input)
              => UNCHANGED <<intelDisplay, intelTimers, intel02_reset_line, gap>>
        /\ (intel02_input # -1) => intel02_input' = intel02_input
        /\ (mk1_input' # mk1_input /\ mk1_input' # -1)
              => UNCHANGED <<mk1Display, mk1Timers, mk1_reset_line, gap>>
        /\ (mk1_input # -1 /\ mk1_digit_data' = mk1_digit_data /\ mk1_input' # -1)
              => mk1_input' = mk1_input
        /\ (mk1_input # -1 /\ mk1_input' = -1)
              => \E data \in 0 .. 255 : mk1_digit_data_w(data) ]_vars

\* MK I: a value read with keys down is on record while one digit is still
\* selected, another has been blanked by its timer a full delay after its
\* deselection and the timer of a third has expired
WitnessC12 ==
    /\ driver = "mk1"
    /\ mk1_input = 163 /\ mk1_digit_data = 33
    /\ \E i, j, k \in Mk1Digits :
          /\ Mk1Selected(i)
          /\ ~Mk1Selected(j) /\ gap[j] = Mk1DelayTicks /\ mk1_out_digit[j] = 0
          /\ ~Mk1Selected(k) /\ mk1_delay_display[k] = 0

\* the mask of the segment decode for data byte d and blink phase b
C13_Mask(d, b) == IF b /\ d % 2 = 1 THEN 0 ELSE IF d = 1 THEN 128 ELSE 127

\* C13: MK I: for every data byte d and blink phase b a selected digit shows
\* bitswap(d; 0,2,1,3,4,5,6,7) AND m with m = 0 if b and bit 0 of d is set,
\* else 0x80 if d = 1, else 0x7f; output bit 7 (DP) is lit only for d = 1
\* with the blink phase off; a blink firing changes an output only when bit 0
\* of d is set.
ClaimC13 ==
    /\ [](\A i \in Mk1Digits :
             Mk1Selected(i) =>
                /\ mk1_out_digit[i] =
                      And8(bitswap8(mk1_digit_data, 0, 2, 1, 3, 4, 5, 6, 7),
                           C13_Mask(mk1_digit_data, mk1_blink))
                /\ mk1_out_digit[i] >= 128 <=> (mk1_digit_data = 1 /\ ~mk1_blink))
    /\ [][(mk1_blink' # mk1_blink /\ mk1_out_digit' # mk1_out_digit)
             => mk1_digit_data % 2 = 1]_vars

\* the reserved value 1 shows the decimal point alone on all four digits,
\* the blink phase is off and the blink timer is about to fire
WitnessC13 ==
    /\ driver = "mk1"
    /\ mk1_digit_data = 1 /\ ~mk1_blink /\ mk1_blink_display = 0
    /\ \A i \in Mk1Digits : mk1_out_digit[i] = 128
    /\ mk1_digit_select = 0

\* C14 as stated: Intellect-02: once select bit 4 (resp. 5) is clear, the lose
\* (resp. win) led is off after the next refresh, without waiting for the
\* deflicker timer of that line.
OrigC14 ==
    [][ IntelRefresh =>
          \A k \in 0 .. 1 :
             BIT(intel02_led_select', 4 + k) = 0 => intel02_out_led'[k] = 0 ]_vars

\* C14 amended: Intellect-02: the leds are deflickered like the digits: every
\* refresh sets led k to bit 4 + k of m_led_active, which stays set while the
\* deflicker timer of a deselected line is pending; a lit led goes off only
\* in the delay_display callback of line 4 + k, with select bit 4 + k clear,
\* a full delay after its deselection.
ClaimC14 ==
    [][ /\ IntelRefresh =>
              \A k \in 0 .. 1 : intel02_out_led'[k] = (intel02_led_active' \div Pow2(4 + k)) % 2
        /\ \A k \in 0 .. 1 :
              (intel02_out_led[k] = 1 /\ intel02_out_led'[k] = 0)
                 => /\ intel02_delay_display_cb(4 + k)
                    /\ ~IntelSelected(4 + k)
                    /\ gap[4 + k] = IntelDelayTicks
        /\ \A k \in 0 .. 1 :
              ( /\ IntelRefresh /\ intel02_out_led[k] = 1
                /\ ~IntelSelected(4 + k) /\ ~intel02_delay_display_cb(4 + k) )
                 => intel02_out_led'[k] = 1 ]_vars

\* the win led is still lit after the refresh that followed the clearing of
\* select bit 5 (time has passed since and no refresh is pending), its timer
\* pending; the lose led has gone off a full delay after its deselection
WitnessC14 ==
    /\ driver = "intel02"
    /\ ~IntelSelected(5) /\ intel02_out_led[1] = 1
    /\ gap[5] >= 1 /\ intel02_delay_update = Idle /\ intel02_delay_display[5] > 0
    /\ ~IntelSelected(4) /\ intel02_out_led[0] = 0 /\ gap[4] = IntelDelayTicks

\* the state of the display once the deflicker timer of digit 1 has fired
C15_Final ==
    /\ intel02_led_select = 1
    /\ intel02_out_digit[0] = intel02_digit_data /\ intel02_digit_data # 0
    /\ \A i \in 1 .. 3 : intel02_out_digit[i] = 0
    /\ intel02_delay_display[1] = Idle

\* C15: Intellect-02 from power-on: after control_w(0b0011), digit_w(d),
\* control_w(0b0001) (d = 0x41, decoded 0x41, among the bytes d) digit 0
\* shows decode(d); digit 1 keeps decode(d) while its deflicker timer is
\* pending, the timer fires a full delay after the third write and the digit
\* is blank from then on; digits 2 and 3 are blank in every state.
ClaimC15 ==
    /\ [](intel02_out_digit[2] = 0 /\ intel02_out_digit[3] = 0)
    /\ [](intel02_led_select = 1 =>
             /\ intel02_out_digit[0] = intel02_digit_data /\ intel02_digit_data # 0
             /\ intel02_out_digit[1] =
                   IF intel02_delay_display[1] # Idle THEN intel02_digit_data ELSE 0)
    /\ [][intel02_delay_display_cb(1) =>
             /\ intel02_led_select = 1 /\ gap[1] = IntelDelayTicks
             /\ intel02_out_digit'[1] = 0]_vars
    /\ [][(intel02_digit_data = 0 /\ intel02_digit_data' = 65)
             => (intel02_out_digit'[0] = 65 /\ intel02_out_digit'[1] = 65)]_vars
    /\ <>[]C15_Final

\* the three writes were made with data 0x41 and timer 1 is about to fire:
\* digits 0 and 1 both show decode(0x41) a full delay after the third write
WitnessC15 ==
    /\ driver = "intel02"
    /\ intel02_led_select = 1 /\ intel02_digit_data = 65
    /\ intel02_out_digit[0] = 65 /\ intel02_out_digit[1] = 65
    /\ intel02_delay_display[1] = 0 /\ gap[1] = IntelDelayTicks
    /\ intel02_delay_update = Idle

\* C16: Intellect-02: control_w arms delay_update for the full 15 us only when
\* it is not pending and leaves a pending one as it is; a pending delay_update
\* only counts down with the clock and is never postponed, so it fires 15 us
\* after the write that armed it; its callback runs update_display; every
\* control_w leaves a delay_update pending, and a pending one always fires.
ClaimC16 ==
    /\ [][(\E data \in BurstControlData : intel02_control_w(data)) =>
             intel02_delay_update' =
                IF intel02_delay_update = Idle THEN IntelUpdateTicks ELSE intel02_delay_update]_vars
    /\ [][(intel02_delay_update # Idle /\ intel02_delay_update' # intel02_delay_update) =>
             \/ intel02_Tick /\ intel02_delay_update' = intel02_delay_update - 1
             \/ /\ intel02_delay_update_cb
                /\ intel02_delay_update = 0 /\ intel02_delay_update' = Idle
                /\ \A i \in IntelDigits :
                      IntelSelected(i) => intel02_out_digit'[i] = intel02_digit_data]_vars
    /\ [][intel02_Tick => intel02_delay_update # 0]_vars
    /\ (intel02_delay_update # Idle) ~> (intel02_delay_update = Idle)

\* a second control_w (it armed the timer of the line it deselected) found
\* delay_update already expired and left it so: the refresh is not postponed
WitnessC16 ==
    /\ driver = "intel02"
    /\ intel02_delay_update = 0
    /\ \E i \in IntelLines :
          /\ ~IntelSelected(i) /\ gap[i] = 0
          /\ intel02_delay_display[i] = IntelDelayTicks

\* C17 on the Intellect-02, for the step from the current state
C17_Intel(i) ==
    /\ (IntelSelected(i) /\ BIT(intel02_led_select', i) = 0)
          => intel02_delay_display'[i] = IntelDelayTicks
    /\ (intel02_delay_display'[i] # intel02_delay_display[i])
          => \/ IntelSelected(i) /\ BIT(intel02_led_select', i) = 0
             \/ intel02_Tick /\ intel02_delay_display'[i] = intel02_delay_display[i] - 1
             \/ intel02_delay_display_cb(i) /\ intel02_delay_display'[i] = Idle

\* C17 on the MK I, for the step from the current state
C17_Mk1(i) ==
    /\ (Mk1Selected(i) /\ BIT(mk1_digit_select', i) = 1 /\ mk1_reset_line' = mk1_reset_line)
          => mk1_delay_display'[i] = Mk1DelayTicks
    /\ (mk1_delay_display'[i] # mk1_delay_display[i])
          => \/ /\ Mk1Selected(i) /\ BIT(mk1_digit_select', i) = 1
                /\ mk1_reset_line' = mk1_reset_line
             \/ mk1_Tick /\ mk1_delay_display'[i] = mk1_delay_display[i] - 1
             \/ mk1_delay_display_cb(i) /\ mk1_delay_display'[i] = Idle

\* C17: in each variant a select write arms deflicker timer i for the full
\* delay if and only if it takes digit i from selected to unselected; apart
\* from that a timer changes only by counting down with the clock and by its
\* own callback, so a write that leaves digit i unselected or selects it
\* leaves timer i as it is; a data write changes no deflicker timer and no
\* select or active mask.
ClaimC17 ==
    [][ /\ \A i \in IntelLines : C17_Intel(i)
        /\ \A i \in Mk1Digits : C17_Mk1(i)
        /\ (intel02_digit_data' # intel02_digit_data)
              => UNCHANGED <<intel02_delay_display, intel02_led_select, intel02_led_active>>
        /\ (mk1_digit_data' # mk1_digit_data)
              => UNCHANGED <<mk1_delay_display, mk1_digit_select>> ]_vars

\* Intellect-02: a write has just deselected one line and armed its timer,
\* while the timer of the led line deselected a tick earlier and the
\* superseded timer of a selected line have kept counting
WitnessC17 ==
    /\ driver = "intel02"
    /\ \E i, k \in IntelDigits :
          /\ ~IntelSelected(i) /\ gap[i] = 0 /\ intel02_delay_display[i] = IntelDelayTicks
          /\ IntelSelected(k) /\ intel02_delay_display[k] = IntelDelayTicks - 1
          /\ ~IntelSelected(4) /\ gap[4] = 1
          /\ intel02_delay_display[4] = IntelDelayTicks - 1

\* C18: Intellect-02: a delay_display callback for index i that finds bit i of
\* m_led_select set leaves m_led_active, m_led_select, m_digit_data and every
\* digit and led output unchanged, also while a delay_update is pending.
OrigC18 ==
    [][ \A i \in IntelLines :
           (intel02_delay_display_cb(i) /\ IntelSelected(i))
              => UNCHANGED <<intel02_led_active, intel02_led_select, intel02_digit_data,
                             intel02_out_digit, intel02_out_led>> ]_vars

\* a superseded timer has expired while a delay_update is pending and a
\* selected digit does not show the latched data yet: the callback will run
\* the refresh ahead of delay_update
WitnessC18 ==
    /\ driver = "intel02"
    /\ intel02_delay_update # Idle
    /\ \E i \in IntelLines, k \in IntelDigits :
          /\ IntelSelected(i) /\ intel02_delay_display[i] = 0
          /\ IntelSelected(k) /\ intel02_out_digit[k] # intel02_digit_data

\* C19: MK I: a step changes the output of a digit that is unselected after
\* it only if it is the callback of the digit's own deflicker timer or the
\* assertion of reset, and then the digit is blank; so data writes, select
\* writes and blink firings never change an unselected digit, and once all
\* digits are unselected and blank they stay blank until a digit is selected.
ClaimC19 ==
    [][ /\ \A i \in Mk1Digits :
              (BIT(mk1_digit_select', i) = 1 /\ mk1_out_digit'[i] # mk1_out_digit[i])
                 => /\ mk1_out_digit'[i] = 0
                    /\ \/ mk1_delay_display_cb(i)
                       \/ mk1_reset_line = 0 /\ mk1_reset_line' # 0
        /\ ( /\ mk1_digit_select = 255 /\ mk1_digit_select' = 255
             /\ \A i \in Mk1Digits : mk1_out_digit[i] = 0 )
              => \A i \in Mk1Digits : mk1_out_digit'[i] = 0 ]_vars

\* a digit that reset deselected a tick ago (its timer was not armed) and all
\* the others are blank and unselected with reset released again, odd data
\* latched and the blink phase on
WitnessC19 ==
    /\ driver = "mk1"
    /\ mk1_reset_line = 0 /\ mk1_digit_select = 255
    /\ \A i \in Mk1Digits : mk1_out_digit[i] = 0
    /\ \E i \in Mk1Digits : gap[i] = 1 /\ mk1_delay_display[i] = Idle
    /\ mk1_digit_data = 3 /\ mk1_blink

\* an unselected digit that is not blank has its deflicker timer pending
C20_HeldByTimer ==
    \A i \in Mk1Digits :
       (~Mk1Selected(i) /\ mk1_out_digit[i] # 0) => mk1_delay_display[i] # Idle

\* C20: MK I: in every reachable state an unselected digit whose output is
\* not blank has its deflicker timer pending; with the clock advancing and
\* expired timers running their callbacks, every digit that is unselected
\* and lit is eventually blank or selected again.
ClaimC20 ==
    /\ []C20_HeldByTimer
    /\ \A i \in Mk1Digits :
          (~Mk1Selected(i) /\ mk1_out_digit[i] # 0)
             ~> (Mk1Selected(i) \/ mk1_out_digit[i] = 0)

\* one digit is unselected and lit with its timer expired, another went
\* blank a full delay after its deselection and is still unselected
WitnessC20 ==
    /\ driver = "mk1"
    /\ \E i, j \in Mk1Digits :
          /\ ~Mk1Selected(i) /\ mk1_out_digit[i] # 0 /\ mk1_delay_display[i] = 0
          /\ ~Mk1Selected(j) /\ mk1_out_digit[j] = 0
          /\ gap[j] = Mk1DelayTicks /\ mk1_delay_display[j] = Idle
    /\ mk1_reset_line = 0

\* a lit digit has its bit of m_led_active set
C21_LitIsActive ==
    \A i \in IntelDigits : intel02_out_digit[i] # 0 => IntelActive(i)

\* a line that is active but not selected has its deflicker timer pending
C21_HeldByTimer ==
    \A i \in IntelLines :
       (IntelActive(i) /\ ~IntelSelected(i)) => intel02_delay_display[i] # Idle

\* line i is inactive, its digit blank or its led off
C21_Cleared(i) ==
    /\ ~IntelActive(i)
    /\ i \in IntelDigits => intel02_out_digit[i] = 0
    /\ i \in 4 .. 5 => intel02_out_led[i - 4] = 0

\* C21 as stated: Intellect-02: a lit digit has its active bit set, an active
\* unselected line has its timer pending, and every active unselected line is
\* eventually cleared, its digit blank or its led off.
OrigC21 ==
    /\ [](C21_LitIsActive /\ C21_HeldByTimer)
    /\ \A i \in IntelLines : (IntelActive(i) /\ ~IntelSelected(i)) ~> C21_Cleared(i)

\* C21 amended: Intellect-02: a lit digit has its active bit set, an active
\* unselected line has its timer pending, and with the clock advancing and
\* expired timers running every active unselected line is eventually either
\* selected again or cleared, its digit blank or its led off.
ClaimC21 ==
    /\ [](C21_LitIsActive /\ C21_HeldByTimer)
    /\ \A i \in IntelLines :
          (IntelActive(i) /\ ~IntelSelected(i)) ~> (IntelSelected(i) \/ C21_Cleared(i))

\* digit 0 is lit and held with its timer expired, the lose led went off a
\* full delay after its line was deselected, the win led is lit and selected
WitnessC21 ==
    /\ driver = "intel02"
    /\ ~IntelSelected(0) /\ IntelActive(0) /\ intel02_out_digit[0] # 0
    /\ intel02_delay_display[0] = 0
    /\ ~IntelSelected(4) /\ ~IntelActive(4) /\ intel02_out_led[0] = 0
    /\ gap[4] = IntelDelayTicks
    /\ IntelSelected(5) /\ intel02_out_led[1] = 1

\* C22: MK I input_r: for every m_digit_data d and every state of the key
\* lines the returned byte has every set bit of d, and with no key pressed
\* it is d itself.
ClaimC22 ==
    (mk1_input # -1) =>
       /\ \A n \in 0 .. 7 :
             (mk1_digit_data \div Pow2(n)) % 2 = 1 => (mk1_input \div Pow2(n)) % 2 = 1
       /\ (\A i \in Mk1Digits : mk1_keypad[i] = 0) => mk1_input = mk1_digit_data

\* d = 0xa5 is read back unchanged with no key pressed
WitnessC22 ==
    /\ mk1_digit_data = 165
    /\ \A i \in Mk1Digits : mk1_keypad[i] = 0
    /\ mk1_input = 165

====
